---- MODULE Spec2Model ----
\* enjarify/main.py: the driver that translates the classes of one or more
\* dex images and collects the results in two ordered mappings.
EXTENDS Integers, Sequences, FiniteSets, TLC

\* ---------------------------------------------------------------- bounds
\* Entries of the input archive (and so images handed to translate()).
MaxEntries == 2
\* Classes enumerated from dex.classes over a whole run.
MaxSteps == 3
\* translate() calls a library client makes.
MaxCalls == 2
\* Classes enumerated over all the calls of a library client.
MaxClientSteps == 2

\* ---------------------------------------------------- program constants
ProgressEvery == 1000
CompressThreshold == 10000

\* ------------------------------------------------------------ input data
\* Class names as stored in the image: modified-UTF-8 byte strings.
\* <<193, 129>> is the two-byte form of code point 65, <<194>> is truncated.
Class(name, body) == [name |-> name, body |-> body]
\* The classes an image is drawn from: every decoded name fresh or repeated,
\* translating or failing.
Classes ==
  { Class(<<65>>, "valid"), Class(<<65>>, "corrupt"), Class(<<193, 129>>, "valid"),
    Class(<<66>>, "valid"), Class(<<66>>, "corrupt"), Class(<<67>>, "valid"),
    Class(<<194>>, "valid") }
Images == { "dex", "junk" }
EntryNames == { "classes.dex", "classes2.dex", "AndroidManifest.xml" }
InputFiles == { "app.apk", "classes.dex" }
NONE == "NONE"
PRETTY == "PRETTY"

\* ------------------------------------------------------- external modules
\* mutf8.decode: raises on a malformed byte string.
RECURSIVE Malformed(_)
Malformed(b) ==
  IF b = <<>> THEN FALSE
  ELSE IF b[1] < 128 THEN Malformed(Tail(b))
  ELSE IF b[1] \in 192..223 /\ Len(b) >= 2 /\ b[2] \in 128..191
       THEN Malformed(SubSeq(b, 3, Len(b)))
  ELSE TRUE

\* mutf8.decode: the code points of a well-formed byte string.
RECURSIVE decode(_)
decode(b) ==
  IF b = <<>> THEN <<>>
  ELSE IF b[1] < 128 THEN <<b[1]>> \o decode(Tail(b))
  ELSE <<(b[1] % 32) * 64 + (b[2] % 64)>> \o decode(SubSeq(b, 3, Len(b)))

\* parsedex.DexFile(data) raises when the image cannot be parsed.
DexFileRaises(data) == data = "junk"

\* writeclass.toClassFile(cls, opts): raises for a corrupt class, else the
\* class file, a function of (cls, opts); NONE skips the optimisations and
\* gives the larger output.
toClassFile(cls, o) ==
  [ raised |-> cls.body = "corrupt",
    data   |-> [ src |-> cls, opts |-> o,
                 len |-> IF o = NONE THEN CompressThreshold + 1
                                     ELSE CompressThreshold ] ]

\* traceback.format_exc() inside the handler of line 40.
format_exc(cls, o) == [ trace |-> "toClassFile", src |-> cls, opts |-> o ]

\* ------------------------------------------------- collections.OrderedDict
Item(k, v) == [key |-> k, value |-> v]
Keys(d) == [j \in 1..Len(d) |-> d[j].key]
KeySet(d) == { d[j].key : j \in 1..Len(d) }
Has(d, k) == \E j \in 1..Len(d) : d[j].key = k
Get(d, k) == d[CHOOSE j \in 1..Len(d) : d[j].key = k].value

\* d[k] = v put at the front instead of the end.
SetItemFront(d, k, v) == <<Item(k, v)>> \o d

\* d[k] = v: a new key goes last, an existing key keeps its place.
SetItem(d, k, v) ==
  IF Has(d, k)
  THEN [j \in 1..Len(d) |-> IF d[j].key = k THEN Item(k, v) ELSE d[j]]
  ELSE Append(d, Item(k, v))

\* ----------------------------------------------------------------- state
VARIABLES
  pc,            \* position of main(), or "client" for a library caller
  args,          \* argparse namespace: force, fast
  dexs,          \* main: images read from the input
  ntranslated,   \* main: images handed to translate() so far
  file,          \* the output path on disk
  outfile,       \* main: the output file object is open
  opts,          \* main: the selected options
  classes,       \* caller's success mapping
  errors,        \* caller's error mapping
  new_classes,   \* mapping made by line 28 when none was passed
  new_errors,    \* mapping made by line 29 when none was passed
  call,          \* the running translate() activation
  image,         \* classes of dex.classes consumed by the running call
  ret,           \* outcome of the last translate() call
  log,           \* standard output
  order,         \* decoded names met by calls on the caller's mappings,
                 \* each at its first occurrence
  partial,       \* some call was given only one of the caller's mappings
  steps,         \* classes enumerated so far
  ncalls         \* client calls so far

vars == << pc, args, dexs, ntranslated, file, outfile,
           opts, classes, errors, new_classes, new_errors, call, image, ret,
           log, order, partial, steps, ncalls >>

NoClass == [name |-> <<>>, body |-> ""]
NoDetail == [trace |-> "", src |-> NoClass, opts |-> ""]
Line(kind, key, value, n, m) ==
  [kind |-> kind, key |-> key, value |-> value, n |-> n, m |-> m]
NoCall == [state |-> "none", caller |-> "", opts |-> "",
           passC |-> FALSE, passE |-> FALSE]
NoRet == [kind |-> "none", classes |-> <<>>, errors |-> <<>>]
NoArgs == [force |-> FALSE, fast |-> FALSE]

\* ------------------------------------------------------------- translate
DotClass == <<46, 99, 108, 97, 115, 115>>
unicode_name(cls) == decode(cls.name) \o DotClass

\* The duplicate test looking at the success mapping only.
IsDuplicateClassesOnly(u, cs, es) == Has(cs, u)

IsDuplicate(u, cs, es) == Has(cs, u) \/ Has(es, u)

\* A failure swallowed without a record.
StoreResultLoseFailure(cls, o, u, cs, es) ==
  LET r == toClassFile(cls, o) IN
  IF r.raised
  THEN [classes |-> cs, errors |-> es]
  ELSE [classes |-> SetItem(cs, u, r.data), errors |-> es]

\* A failed class stored in the success mapping as well.
StoreResultBoth(cls, o, u, cs, es) ==
  LET r == toClassFile(cls, o) IN
  IF r.raised
  THEN [classes |-> SetItem(cs, u, r.data), errors |-> SetItem(es, u, format_exc(cls, o))]
  ELSE [classes |-> SetItem(cs, u, r.data), errors |-> es]

\* try/except of lines 37-41.
StoreResult(cls, o, u, cs, es) ==
  LET r == toClassFile(cls, o) IN
  IF r.raised
  THEN [classes |-> cs, errors |-> SetItem(es, u, format_exc(cls, o))]
  ELSE [classes |-> SetItem(cs, u, r.data), errors |-> es]

\* A default mapping built once and reused by later calls.
SharedDefault(previous) == previous

\* collections.OrderedDict() of lines 28-29, built anew in each call.
FreshMapping(previous) == <<>>

WorkClasses == IF call.passC THEN classes ELSE new_classes
WorkErrors == IF call.passE THEN errors ELSE new_errors

\* An exception leaves translate() and reaches its caller: main() has no
\* handler and ends, a client sees the call raise.
Propagate(caller) ==
  /\ call' = NoCall
  /\ ret' = [kind |-> "raised", classes |-> <<>>, errors |-> <<>>]
  /\ pc' = IF caller = "main" THEN "raised" ELSE pc

\* Lines 26-29: the call, DexFile(data) and the binding of the mappings.
Enter(caller, data, o, passC, passE) ==
  /\ image' = <<>>
  /\ IF DexFileRaises(data)
     THEN /\ Propagate(caller)
          /\ UNCHANGED << new_classes, new_errors, partial >>
     ELSE /\ call' = [state |-> "loop", caller |-> caller, opts |-> o,
                      passC |-> passC, passE |-> passE]
          /\ new_classes' = IF passC THEN new_classes ELSE FreshMapping(new_classes)
          /\ new_errors' = IF passE THEN new_errors ELSE FreshMapping(new_errors)
          /\ partial' = (partial \/ (passC /= passE))
          /\ UNCHANGED << pc, ret >>

\* Lines 31-44: one iteration of the loop over dex.classes.
TranslateStep(cls) ==
  /\ call.state = "loop"
  /\ steps < (IF call.caller = "main" THEN MaxSteps ELSE MaxClientSteps)
  /\ steps' = steps + 1
  /\ image' = Append(image, cls)
  /\ UNCHANGED << args, dexs, ntranslated, file, outfile,
                  opts, partial, ncalls >>
  /\ IF Malformed(cls.name)
     THEN /\ Propagate(call.caller)
          /\ UNCHANGED << classes, errors, new_classes, new_errors, log, order >>
     ELSE LET u == unicode_name(cls)
              cs == WorkClasses
              es == WorkErrors
          IN
          /\ order' = IF call.passC /\ call.passE /\ ~(\E j \in 1..Len(order) : order[j] = u)
                      THEN Append(order, u) ELSE order
          /\ UNCHANGED << pc, call, ret >>
          /\ IF IsDuplicate(u, cs, es)
             THEN /\ log' = Append(log, Line("warning", u, NoDetail, 0, 0))
                  /\ UNCHANGED << classes, errors, new_classes, new_errors >>
             ELSE LET r == StoreResult(cls, call.opts, u, cs, es)
                      n == Len(r.classes) + Len(r.errors)
                  IN
                  /\ IF call.passC
                     THEN classes' = r.classes /\ UNCHANGED new_classes
                     ELSE new_classes' = r.classes /\ UNCHANGED classes
                  /\ IF call.passE
                     THEN errors' = r.errors /\ UNCHANGED new_errors
                     ELSE new_errors' = r.errors /\ UNCHANGED errors
                  /\ log' = IF n % ProgressEvery = 0
                            THEN Append(log, Line("processed", <<>>, NoDetail, n, 0))
                            ELSE log

\* Line 45: dex.classes is exhausted and the two mappings are returned.
TranslateReturn ==
  /\ call.state = "loop"
  /\ call' = NoCall
  /\ ret' = [kind |-> "returned", classes |-> WorkClasses, errors |-> WorkErrors]
  /\ UNCHANGED << pc, args, dexs, ntranslated, file, outfile,
                  opts, classes, errors, new_classes, new_errors, image, log,
                  order, partial, steps, ncalls >>

\* ------------------------------------------------------------ writeToJar
ZIP_DEFLATED == "ZIP_DEFLATED"
ZIP_STORED == "ZIP_STORED"

JarEntry(it) ==
  [ name |-> it.key, data |-> it.value,
    compress_type |-> IF it.value.len > CompressThreshold THEN ZIP_DEFLATED
                                                          ELSE ZIP_STORED ]

\* Lines 47-52: one entry per item of classes, in the mapping's order.
writeToJar(cs) == [j \in 1..Len(cs) |-> JarEntry(cs[j])]

\* ------------------------------------------------------------------ main
EndsWithApk(f) == f = "app.apk"
IsDexEntry(name) == name \in { "classes.dex", "classes2.dex" }
ZipEntries == [name : EntryNames, data : Images]

RECURSIVE SeqsUpTo(_, _)
SeqsUpTo(S, n) ==
  IF n = 0 THEN { <<>> }
  ELSE LET shorter == SeqsUpTo(S, n - 1) IN
       shorter \cup { Append(s, x) : s \in { t \in shorter : Len(t) = n - 1 }, x \in S }

RECURSIVE SelectDex(_)
SelectDex(z) ==
  IF z = <<>> THEN <<>>
  ELSE (IF IsDexEntry(z[1].name) THEN <<z[1].data>> ELSE <<>>) \o SelectDex(Tail(z))

\* Lines 55-69: the arguments are parsed and the images are read.
MainParseArgs(inputfile, force, fast, z, data) ==
  /\ pc = "start"
  /\ args' = [force |-> force, fast |-> fast]
  /\ dexs' = IF EndsWithApk(inputfile) THEN SelectDex(z) ELSE <<data>>
  /\ pc' = "check"
  /\ UNCHANGED << ntranslated, file, outfile, opts, classes,
                  errors, new_classes, new_errors, call, image, ret, log, order,
                  partial, steps, ncalls >>

\* Lines 71-77: overwrite protection needs an interpreter that defines
\* FileExistsError (3.3+).
MainCheckVersion(hasFileExistsError) ==
  /\ pc = "check"
  /\ IF ~args.force /\ ~hasFileExistsError
     THEN /\ log' = Append(log, Line("needs-3.3", <<>>, NoDetail, 0, 0))
          /\ pc' = "returned"
     ELSE /\ pc' = "open"
          /\ UNCHANGED log
  /\ UNCHANGED << args, dexs, ntranslated, file, outfile,
                  opts, classes, errors, new_classes, new_errors, call, image,
                  ret, order, partial, steps, ncalls >>

\* The output opened for writing whatever is there.
OpenModeAlwaysWrite(force) == "wb"

\* Line 83: exclusive creation unless --force.
OpenMode(force) == IF force THEN "wb" ELSE "xb"

\* --fast read the wrong way round.
SelectOptsInverted(fast) == IF fast THEN PRETTY ELSE NONE

\* Line 89.
SelectOpts(fast) == IF fast THEN NONE ELSE PRETTY

NoFile == [state |-> "absent", entries |-> <<>>]
OldFile == [state |-> "old", entries |-> <<>>]
EmptyFile == [state |-> "written", entries |-> <<>>]

\* Lines 79-91: the output is opened before anything is translated.
MainOpen ==
  /\ pc = "open"
  /\ IF OpenMode(args.force) = "xb" /\ file.state /= "absent"
     THEN /\ log' = log \o << Line("exists", <<>>, NoDetail, 0, 0),
                              Line("pass-force", <<>>, NoDetail, 0, 0) >>
          /\ pc' = "returned"
          /\ UNCHANGED << file, outfile, opts, classes, errors >>
     ELSE /\ file' = EmptyFile
          /\ outfile' = TRUE
          /\ opts' = SelectOpts(args.fast)
          /\ classes' = <<>>
          /\ errors' = <<>>
          /\ pc' = "translating"
          /\ UNCHANGED log
  /\ UNCHANGED << args, dexs, ntranslated, new_classes,
                  new_errors, call, image, ret, order, partial, steps, ncalls >>

\* Lines 92-93: the next image is handed to translate().
MainCallTranslate ==
  /\ pc = "translating"
  /\ call.state = "none"
  /\ ntranslated < Len(dexs)
  /\ ntranslated' = ntranslated + 1
  /\ Enter("main", dexs[ntranslated + 1], opts, TRUE, TRUE)
  /\ UNCHANGED << args, dexs, file, outfile, opts, classes,
                  errors, log, order, steps, ncalls >>

\* Lines 94-96: the jar is written and the file closed.
MainWriteJar ==
  /\ pc = "translating"
  /\ call.state = "none"
  /\ ntranslated = Len(dexs)
  /\ file' = [state |-> "written", entries |-> writeToJar(classes)]
  /\ outfile' = FALSE
  /\ log' = Append(log, Line("written", <<>>, NoDetail, 0, 0))
  /\ pc' = "report"
  /\ UNCHANGED << args, dexs, ntranslated, opts, classes,
                  errors, new_classes, new_errors, call, image, ret, order,
                  partial, steps, ncalls >>

\* Lexicographic order of two sequences of code points.
RECURSIVE LexLess(_, _)
LexLess(a, b) ==
  IF b = <<>> THEN FALSE
  ELSE IF a = <<>> THEN TRUE
  ELSE IF a[1] /= b[1] THEN a[1] < b[1]
  ELSE LexLess(Tail(a), Tail(b))

RECURSIVE InsertItem(_, _)
InsertItem(s, it) ==
  IF s = <<>> THEN <<it>>
  ELSE IF LexLess(it.key, s[1].key) THEN <<it>> \o s
  ELSE <<s[1]>> \o InsertItem(Tail(s), it)

RECURSIVE InsertionSort(_)
InsertionSort(d) ==
  IF d = <<>> THEN <<>> ELSE InsertItem(InsertionSort(Tail(d)), d[1])

\* The items left in the mapping's own order.
SortedItemsUnsorted(d) == d

\* sorted(errors.items()) of line 98: the keys are distinct, so they decide.
SortedItems(d) == InsertionSort(d)

\* Lines 98-100: every failure's detail, then the two counts.
MainReport ==
  /\ pc = "report"
  /\ LET s == SortedItems(errors) IN
     log' = log \o [j \in 1..Len(s) |-> Line("detail", s[j].key, s[j].value, 0, 0)]
                \o << Line("summary", <<>>, NoDetail, Len(classes), Len(errors)) >>
  /\ pc' = "done"
  /\ UNCHANGED << args, dexs, ntranslated, file, outfile,
                  opts, classes, errors, new_classes, new_errors, call, image,
                  ret, order, partial, steps, ncalls >>

\* ---------------------------------------------------------------- client
\* A caller of translate() other than main(): either mapping may be left out.
ClientCall(data, o, passC, passE) ==
  /\ pc = "client"
  /\ call.state = "none"
  /\ ncalls < MaxCalls
  /\ ncalls' = ncalls + 1
  /\ Enter("client", data, o, passC, passE)
  /\ UNCHANGED << args, dexs, ntranslated, file, outfile,
                  opts, classes, errors, log, order, steps >>

\* --------------------------------------------------------- specifications
Blank ==
  /\ args = NoArgs
  /\ dexs = <<>>
  /\ ntranslated = 0
  /\ outfile = FALSE
  /\ opts = ""
  /\ classes = <<>>
  /\ errors = <<>>
  /\ new_classes = <<>>
  /\ new_errors = <<>>
  /\ call = NoCall
  /\ image = <<>>
  /\ ret = NoRet
  /\ log = <<>>
  /\ order = <<>>
  /\ partial = FALSE
  /\ steps = 0
  /\ ncalls = 0

\* The module is run as a script (main) or imported by a client.
Init ==
  /\ Blank
  /\ \/ pc = "start" /\ file \in { NoFile, OldFile }
     \/ pc = "client" /\ file = NoFile

Next ==
  \/ /\ pc = "start"
     /\ \E inputfile \in InputFiles, force \in BOOLEAN, fast \in BOOLEAN,
           z \in SeqsUpTo(ZipEntries, MaxEntries), data \in Images :
          MainParseArgs(inputfile, force, fast, z, data)
  \/ \E hasFileExistsError \in BOOLEAN : MainCheckVersion(hasFileExistsError)
  \/ MainOpen
  \/ MainCallTranslate
  \/ MainWriteJar
  \/ MainReport
  \/ \E data \in Images, o \in { NONE, PRETTY }, passC \in BOOLEAN, passE \in BOOLEAN :
       ClientCall(data, o, passC, passE)
  \/ /\ call.state = "loop"
     /\ \E cls \in Classes : TranslateStep(cls)
  \/ TranslateReturn

Spec == Init /\ [][Next]_vars

\* ---------------------------------------------------------------- claims
Range(s) == { s[j] : j \in 1..Len(s) }
IsPrefix(s, t) == Len(s) <= Len(t) /\ \A j \in 1..Len(s) : s[j] = t[j]
WellFormed(img) == \A j \in 1..Len(img) : ~Malformed(img[j].name)
DistinctNames(img) ==
  /\ WellFormed(img)
  /\ \A j, k \in 1..Len(img) : j /= k => unicode_name(img[j]) /= unicode_name(img[k])
NamesWith(img, body) ==
  { unicode_name(img[j]) : j \in { k \in 1..Len(img) : img[k].body = body } }
MainPastOpen == pc \in { "translating", "report", "done", "raised" }

\* main()'s first translate() call has returned: it began with both mappings
\* empty and `image` holds the classes it enumerated.
FirstCallReturned ==
  pc = "translating" /\ call.state = "none" /\ ntranslated = 1 /\ ret.kind = "returned"

OneFailureAmongDistinct ==
  /\ FirstCallReturned
  /\ DistinctNames(image)
  /\ Cardinality({ j \in 1..Len(image) : image[j].body = "corrupt" }) = 1

\* C1: when translate() has run on an image of distinctly named classes of
\* which exactly one makes toClassFile fail, the returned success mapping holds
\* exactly the other classes and the error mapping exactly the failing one,
\* wherever the failing class stands in the image.
C1_Isolation ==
  OneFailureAmongDistinct =>
    /\ KeySet(ret.classes) = NamesWith(image, "valid")
    /\ Len(ret.classes) = Len(image) - 1
    /\ KeySet(ret.errors) = NamesWith(image, "corrupt")
    /\ Len(ret.errors) = 1
    /\ ret.classes = classes
    /\ ret.errors = errors

\* Two valid classes around one failing class, the failing one in the middle.
C1_Witness ==
  /\ OneFailureAmongDistinct
  /\ Len(image) = 3
  /\ image[2].body = "corrupt"

\* C2: after any calls sharing the two mappings, no name is a key of both, and
\* the jar holds exactly the entries of classes, so none recorded in errors.
C2_FailedNeverInSuccess ==
  /\ ~partial => KeySet(classes) \cap KeySet(errors) = {}
  /\ \A j \in 1..Len(file.entries) : file.entries[j].name \notin KeySet(errors)
  /\ pc \in { "report", "done" } =>
       /\ Len(file.entries) = Len(classes)
       /\ \A j \in 1..Len(classes) :
            /\ file.entries[j].name = classes[j].key
            /\ file.entries[j].data = classes[j].value

\* A run that ended with a success and a failure: the jar has the one entry.
C2_Witness ==
  /\ pc = "done"
  /\ Len(classes) >= 1
  /\ Len(errors) >= 1
  /\ Len(file.entries) = Len(classes)

\* The step just taken enumerated a class (TranslateStep).
Enumerated == call.state = "loop" /\ Len(image') = Len(image) + 1
Current == image'[Len(image')]

\* C3: a class whose decoded name is already a key of the success mapping or
\* of the error mapping is dropped with a warning and both mappings, with the
\* entry of the first occurrence, stay as they were.
C3_DuplicateFirstWins ==
  [][ (Enumerated /\ ~Malformed(Current.name)
         /\ unicode_name(Current) \in KeySet(WorkClasses) \cup KeySet(WorkErrors))
      => /\ classes' = classes
         /\ errors' = errors
         /\ new_classes' = new_classes
         /\ new_errors' = new_errors
         /\ log' = Append(log, Line("warning", unicode_name(Current), NoDetail, 0, 0))
         /\ call' = call ]_vars

\* In a later image of the run a class that would translate repeats the name
\* of a class that failed in an earlier image, and has just been dropped.
C3_Witness ==
  /\ pc = "translating"
  /\ ntranslated = 2
  /\ call.state = "loop"
  /\ Len(image) = 1
  /\ image[1].body = "valid"
  /\ ~Malformed(image[1].name)
  /\ Has(errors, unicode_name(image[1]))
  /\ ~Has(classes, unicode_name(image[1]))
  /\ Len(log) >= 1
  /\ log[Len(log)].kind = "warning"

MainEnded == pc \in { "done", "returned", "raised" }
LastRaisedInClass == ret.kind = "raised" /\ image /= <<>>

\* C4: given several images of which one cannot be parsed, main() still hands
\* every image to translate(), writes the jar of the translated classes and
\* prints the summary.
C4_ImageFailureIsLocal ==
  ( /\ MainEnded
    /\ MainPastOpen
    /\ Len(dexs) >= 2
    /\ \E j \in 1..Len(dexs) : DexFileRaises(dexs[j])
    /\ ~LastRaisedInClass )
  => /\ pc = "done"
     /\ ntranslated = Len(dexs)
     /\ file.entries = writeToJar(classes)
     /\ \E j \in 1..Len(log) : log[j].kind = "summary"

\* C5: while a class of a parsed image is processed, whatever goes wrong,
\* translate() does not raise.
C5_NoExceptionCrossesClass == ~LastRaisedInClass

Details == SelectSeq(log, LAMBDA l : l.kind = "detail")
Summaries == SelectSeq(log, LAMBDA l : l.kind = "summary")

\* C6: a failure detail or the success/failure counts are printed only after
\* every image was handed to translate() and the jar was written; the details
\* are the entries of the error mapping in sorted name order and the counts
\* are the final sizes of the two mappings.
C6_ReportAfterFullRun ==
  /\ (Details /= <<>> \/ Summaries /= <<>>) =>
       /\ pc = "done"
       /\ ntranslated = Len(dexs)
       /\ call.state = "none"
       /\ ~outfile
       /\ file.entries = writeToJar(classes)
  /\ pc = "done" =>
       /\ Len(Details) = Len(errors)
       /\ \A j \in 1..Len(Details) :
            /\ Has(errors, Details[j].key)
            /\ Details[j].value = Get(errors, Details[j].key)
       /\ \A j \in 1..(Len(Details) - 1) : LexLess(Details[j].key, Details[j + 1].key)
       /\ Len(Summaries) = 1
       /\ log[Len(log)].kind = "summary"
       /\ log[Len(log)].n = Len(classes)
       /\ log[Len(log)].m = Len(errors)

\* A finished run over two images whose two failures were met in the reverse
\* of their sorted order.
C6_Witness ==
  /\ pc = "done"
  /\ Len(dexs) = 2
  /\ Len(errors) = 2
  /\ LexLess(errors[2].key, errors[1].key)
  /\ Len(Details) = 2

InOrder(d) == SelectSeq(order, LAMBDA u : Has(d, u))

\* C7: the keys of either mapping stand in the order in which the names first
\* occur in the input (image order, then class order), every value is the
\* translation of a class of that name under the run's options, and the jar's
\* entries follow the order of the success mapping.
C7_StableOrder ==
  /\ ~partial =>
       /\ Keys(classes) = InOrder(classes)
       /\ Keys(errors) = InOrder(errors)
  /\ MainPastOpen =>
       \A j \in 1..Len(classes) :
         /\ unicode_name(classes[j].value.src) = classes[j].key
         /\ classes[j].value = toClassFile(classes[j].value.src, opts).data
  /\ \A j \in 1..Len(file.entries) :
       /\ j <= Len(classes)
       /\ file.entries[j].name = classes[j].key

\* A jar of two entries written from two images, a failing class having been
\* met between the two that translate.
C7_Witness ==
  /\ pc = "done"
  /\ ntranslated = 2
  /\ Len(file.entries) = 2
  /\ Len(errors) = 1
  /\ Len(order) = 3
  /\ order[2] = errors[1].key

Selected == IF args.fast THEN NONE ELSE PRETTY
Added(d, e) == Len(e) = Len(d) + 1 /\ IsPrefix(d, e)
\* The running call's mappings after the step.
WorkClassesNext == IF call.passC THEN classes' ELSE new_classes'
WorkErrorsNext == IF call.passE THEN errors' ELSE new_errors'

\* C8: main() selects NONE exactly when --fast is given and PRETTY otherwise
\* and hands that value to every translate() call; translate() hands the
\* options of its own call, unchanged, to the translation of every class.
C8_OptionsThreaded ==
  [][ /\ MainPastOpen' =>
           /\ opts' = Selected'
           /\ call'.state = "loop" => call'.opts = Selected'
           /\ \A j \in 1..Len(classes') : classes'[j].value.opts = Selected'
           /\ \A j \in 1..Len(errors') : errors'[j].value.opts = Selected'
      /\ call.state = "loop" =>
           /\ Added(WorkClasses, WorkClassesNext) =>
                WorkClassesNext[Len(WorkClassesNext)].value.opts = call.opts
           /\ Added(WorkErrors, WorkErrorsNext) =>
                WorkErrorsNext[Len(WorkErrorsNext)].value.opts = call.opts ]_vars

\* A --fast run that translated a class and recorded a failure.
C8_Witness ==
  /\ pc = "done"
  /\ args.fast
  /\ Len(classes) >= 1
  /\ Len(errors) >= 1
  /\ classes[1].value.opts = NONE

\* C9: main() opens the output before any image is translated; without
\* --force an existing output file makes main() print an error and return with
\* nothing translated and the file as it was; with --force it is overwritten.
C9_OverwriteProtection ==
  [][ (pc /= "client") =>
        /\ (ntranslated' > 0 \/ steps' > 0) => (MainPastOpen' /\ file'.state = "written")
        /\ (file.state = "old" /\ ~args'.force) =>
             /\ file' = file
             /\ pc' \in { "check", "open", "returned" }
             /\ ntranslated' = 0 /\ steps' = 0
             /\ classes' = <<>> /\ errors' = <<>>
             /\ pc' = "returned" => \E j \in 1..Len(log') : log'[j].kind \in { "exists", "needs-3.3" }
        /\ (file.state = "old" /\ args.force /\ pc = "open") => file'.state = "written"
    ]_vars

\* main() has returned on finding the output file present, with images to
\* translate and no --force.
C9_Witness ==
  /\ pc = "returned"
  /\ file.state = "old"
  /\ Len(dexs) = 2
  /\ ~args.force
  /\ Len(log) = 2
  /\ log[1].kind = "exists"

ImageNames == { unicode_name(image[j]) : j \in { k \in 1..Len(image) : ~Malformed(image[k].name) } }

\* C10: a step of the loop leaves the mappings as they are or adds one new
\* key to one of them, and no step of the program removes or changes an entry
\* of the caller's mappings; so the sizes of shared mappings add up to the
\* number of distinct decoded names met, and a call given no mapping works on
\* a fresh one holding only names of its own image.
C10_MappingsOnlyGrow ==
  /\ [](~partial => Len(classes) + Len(errors) = Cardinality(Range(order)))
  /\ []((call.state = "loop" /\ ~call.passC) => KeySet(new_classes) \subseteq ImageNames)
  /\ []((call.state = "loop" /\ ~call.passE) => KeySet(new_errors) \subseteq ImageNames)
  /\ [][ /\ IsPrefix(classes, classes')
         /\ IsPrefix(errors, errors')
         /\ call.state = "loop" =>
              /\ IsPrefix(new_classes, new_classes')
              /\ IsPrefix(new_errors, new_errors')
              /\ \/ /\ WorkClassesNext = WorkClasses
                    /\ WorkErrorsNext = WorkErrors
                 \/ /\ Added(WorkClasses, WorkClassesNext)
                    /\ WorkErrorsNext = WorkErrors
                    /\ ~Has(WorkClasses, WorkClassesNext[Len(WorkClassesNext)].key)
                    /\ ~Has(WorkErrors, WorkClassesNext[Len(WorkClassesNext)].key)
                 \/ /\ Added(WorkErrors, WorkErrorsNext)
                    /\ WorkClassesNext = WorkClasses
                    /\ ~Has(WorkClasses, WorkErrorsNext[Len(WorkErrorsNext)].key)
                    /\ ~Has(WorkErrors, WorkErrorsNext[Len(WorkErrorsNext)].key) ]_vars

\* A second call, given no mappings, has translated a class into its own fresh
\* mapping after an earlier call filled the caller's mappings.
C10_Witness ==
  /\ pc = "client"
  /\ ncalls = 2
  /\ call.state = "loop"
  /\ ~call.passC
  /\ ~call.passE
  /\ Len(classes) = 1
  /\ Len(new_classes) = 1
  /\ new_classes[1].key /= classes[1].key

====
